---- MODULE Spec2Model ----
\* File-backed todo repositories (JSON and XML document stores) of
\* src/infrastructure, with the FileHandler utilities they rest on and the
\* Todo entity they persist.
\*
\* Text is a tuple of characters; an optional value is a tuple of length 0
\* (None) or 1 (the value); a datetime is <<second, microsecond>>.
EXTENDS Integers, Sequences, FiniteSets, TLC

VARIABLES
    fmt,          \* "json" | "xml": which repository class owns the file
    os_name,      \* os.name as seen by FileHandler.safe_write
    constructed,  \* a repository instance exists
    dir,          \* the parent directory exists
    file,         \* the document file (self.file_path)
    tmp,          \* the sibling temporary file <name>.tmp
    backups,      \* second |-> content of <stem>_backup_<second><suffix>
    now,          \* wall clock, whole seconds
    nops,         \* number of operations that may write, attempted so far
    last,         \* the last call: arguments, outcome, and the files before it
    saved,        \* the todos saved through the store and not deleted since
    nfaults,      \* number of injected I/O failures that were hit so far
    procs,        \* caller |-> the save() call it is in, statement by statement
    ent,          \* a Todo object in a caller's hands, with how it came about
    twin          \* the files of a second store that is given the same calls

vars == <<fmt, os_name, constructed, dir, file, tmp, backups, now, nops, last, saved, nfaults,
          procs, ent, twin>>

-----------------------------------------------------------------------------
\* Bounds of the model

MaxOps == 3
MaxClock == 1
MaxFaults == 1

\* Program constants
MaxTitleLen == 200
MaxDescLen == 1000

\* AppConfig.max_backups
max_backups == 5

-----------------------------------------------------------------------------
\* Values

None == <<>>
Some(v) == <<v>>
IsNone(o) == Len(o) = 0
Val(o) == o[1]

WS == " "

RECURSIVE lstrip(_)
lstrip(s) == IF Len(s) > 0 /\ Head(s) = WS THEN lstrip(Tail(s)) ELSE s

RECURSIVE rstrip(_)
rstrip(s) ==
    IF Len(s) > 0 /\ s[Len(s)] = WS THEN rstrip(SubSeq(s, 1, Len(s) - 1)) ELSE s

strip(s) == rstrip(lstrip(s))

\* bool(s) of a str | None
Truthy(o) == ~IsNone(o) /\ Len(Val(o)) > 0

Priority == {"low", "medium", "high"}

\* datetime.isoformat(): the microsecond part is printed only when non-zero
isoformat(dt) == IF dt[2] = 0 THEN <<dt[1]>> ELSE <<dt[1], dt[2]>>

fromisoformat(s) == IF Len(s) = 1 THEN <<s[1], 0>> ELSE <<s[1], s[2]>>

-----------------------------------------------------------------------------
\* Todo entity

MkTodo(i, t, d, c, p, ca, ua) ==
    [id |-> i, title |-> t, description |-> d, completed |-> c,
     priority |-> p, created_at |-> ca, updated_at |-> ua]

\* Mutant: the priority is taken as it comes
TodoFieldsOk_AnyPriority(title, description, priority) ==
    /\ ~IsNone(title)
    /\ Len(Val(title)) <= MaxTitleLen
    /\ Len(strip(Val(title))) > 0
    /\ (IsNone(description) \/ Len(Val(description)) <= MaxDescLen)

\* Field validation run by Todo(...): title and description are optional here
\* because a decoder may hand over None
TodoFieldsOk(title, description, priority) ==
    /\ ~IsNone(title)
    /\ Len(Val(title)) <= MaxTitleLen
    /\ Len(strip(Val(title))) > 0
    /\ (IsNone(description) \/ Len(Val(description)) <= MaxDescLen)
    /\ priority \in Priority

validate_title(v) == strip(v)

\* Todo(...) : [ok, todo]
NoTodo == MkTodo("", <<>>, None, FALSE, "medium", <<0, 0>>, None)

TodoInit(i, title, description, completed, priority, ca, ua) ==
    IF TodoFieldsOk(title, description, priority)
    THEN [ok |-> TRUE,
          todo |-> MkTodo(i, validate_title(Val(title)), description,
                          completed, priority, ca, ua)]
    ELSE [ok |-> FALSE, todo |-> NoTodo]

mark_completed(t, clock) ==
    [t EXCEPT !.completed = TRUE, !.updated_at = Some(clock)]

\* Mutant: the flag is cleared and the timestamp left alone
mark_incomplete_Silent(t, clock) == [t EXCEPT !.completed = FALSE]

mark_incomplete(t, clock) ==
    [t EXCEPT !.completed = FALSE, !.updated_at = Some(clock)]

update_title(t, new_title, clock) ==
    [t EXCEPT !.title = new_title, !.updated_at = Some(clock)]

update_description(t, new_description, clock) ==
    [t EXCEPT !.description = new_description, !.updated_at = Some(clock)]

update_priority(t, new_priority, clock) ==
    [t EXCEPT !.priority = new_priority, !.updated_at = Some(clock)]

-----------------------------------------------------------------------------
\* JSON codec.  A document is the ordered dict  id -> field map, modelled as
\* a sequence of field maps with pairwise distinct ids.

_todo_to_dict(todo) ==
    [id |-> todo.id,
     title |-> todo.title,
     description |-> todo.description,
     completed |-> todo.completed,
     priority |-> todo.priority,
     created_at |-> isoformat(todo.created_at),
     updated_at |-> IF ~IsNone(todo.updated_at)
                    THEN Some(isoformat(Val(todo.updated_at)))
                    ELSE None]

\* [ok, todo]
_dict_to_todo(data) ==
    TodoInit(data.id, Some(data.title), data.description, data.completed,
             data.priority, fromisoformat(data.created_at),
             IF Truthy(data.updated_at)
             THEN Some(fromisoformat(Val(data.updated_at)))
             ELSE None)

-----------------------------------------------------------------------------
\* XML codec.  A <todo> element is its id attribute and, per tag, the first
\* child with that tag: None when there is no such child, Some(text) when
\* there is one, text being None for an element without text.

MkElem(i, t, d, c, p, ca, ua) ==
    [id |-> i, title |-> t, description |-> d, completed |-> c,
     priority |-> p, created_at |-> ca, updated_at |-> ua]

str_bool(b) == IF b THEN <<"True">> ELSE <<"False">>

LowerChar(ch) ==
    CASE ch = "True" -> "true"
      [] ch = "False" -> "false"
      [] OTHER -> ch

lower(s) == [k \in DOMAIN s |-> LowerChar(s[k])]

_todo_to_xml_element(todo) ==
    MkElem(Some(todo.id),
           Some(Some(todo.title)),
           IF Truthy(todo.description) THEN Some(todo.description) ELSE None,
           Some(Some(lower(str_bool(todo.completed)))),
           Some(Some(<<todo.priority>>)),
           Some(Some(isoformat(todo.created_at))),
           IF ~IsNone(todo.updated_at)
           THEN Some(Some(isoformat(Val(todo.updated_at))))
           ELSE None)

\* What ET.parse gives back for a child that ET.tostring wrote: an element
\* whose text is the empty string is written <tag /> and read with text None
ChildRoundTrip(c) ==
    IF ~IsNone(c) /\ ~IsNone(Val(c)) /\ Len(Val(Val(c))) = 0 THEN Some(None) ELSE c

ElemRoundTrip(e) ==
    [e EXCEPT !.title = ChildRoundTrip(e.title),
              !.description = ChildRoundTrip(e.description),
              !.completed = ChildRoundTrip(e.completed),
              !.priority = ChildRoundTrip(e.priority),
              !.created_at = ChildRoundTrip(e.created_at),
              !.updated_at = ChildRoundTrip(e.updated_at)]

\* Priority(text)
PriorityOk(text) == ~IsNone(text) /\ Len(Val(text)) = 1 /\ Val(text)[1] \in Priority

\* [ok, todo].  Each conjunct is one statement of the decoder that raises
\* when it is false.
_xml_element_to_todo(element) ==
    IF /\ ~IsNone(element.title)
       /\ ~IsNone(element.completed) /\ ~IsNone(Val(element.completed))
       /\ ~IsNone(element.priority) /\ PriorityOk(Val(element.priority))
       /\ ~IsNone(element.created_at) /\ ~IsNone(Val(element.created_at))
       /\ (IsNone(element.updated_at) \/ ~IsNone(Val(element.updated_at)))
       /\ ~IsNone(element.id)
    THEN TodoInit(Val(element.id),
                  Val(element.title),
                  IF ~IsNone(element.description) THEN Val(element.description) ELSE None,
                  lower(Val(Val(element.completed))) = <<"true">>,
                  Val(Val(element.priority))[1],
                  fromisoformat(Val(Val(element.created_at))),
                  IF ~IsNone(element.updated_at)
                  THEN Some(fromisoformat(Val(Val(element.updated_at))))
                  ELSE None)
    ELSE [ok |-> FALSE, todo |-> NoTodo]

-----------------------------------------------------------------------------
\* Files.  A file is absent or holds a text; a text is modelled by what a
\* parser makes of it: kind "json" (an object, recs its members in order),
\* "xml" (a <todos> root, recs its <todo> children in order), "blank" (empty
\* or whitespace only), "array" (JSON whose top level is not an object) or
\* "malformed".  The kinds "json" and "xml" are also the names of the formats.

Absent == [exists |-> FALSE, kind |-> "none", recs |-> <<>>]
Text(kind, recs) == [exists |-> TRUE, kind |-> kind, recs |-> recs]

\* json.dumps(todos, indent=2, ensure_ascii=False)
json_dumps(todos) == Text("json", todos)

\* ET.tostring(root, encoding='unicode', xml_declaration=True)
ET_tostring(root) == Text("xml", [k \in DOMAIN root |-> ElemRoundTrip(root[k])])

\* The three files a store touches
FS(f, t, b) == [file |-> f, tmp |-> t, backups |-> b]

\* Injected I/O failures, named by the file access that raises OSError:
\* "read" read_text / ET.parse, "write" write_text on the document,
\* "copy" shutil.copy2, "write_tmp" write_text on the temporary file,
\* "unlink" file_path.unlink, "replace" temp_path.replace
ReadFaults == {"none", "read"}
InitFaults == {"none", "write", "write_tmp", "replace"}
WriteFaults == {"none", "read", "copy", "write_tmp", "unlink", "replace"}
\* update and delete reach the same safe_write as save: one failure of the
\* read and one of the write stand for them there
UpdateFaults == {"none", "read", "replace"}
DeleteFaults == {"none", "read", "replace"}

\* The record of the FileHandler.safe_write call made inside an operation
NoCall == [called |-> FALSE, err |-> "none", pre |-> Absent, content |-> Absent]

\* Mutant: the backup path is returned but nothing is copied
create_backup_NoCopy(fs, clock, fault) ==
    IF ~fs.file.exists
    THEN [err |-> "FileNotFoundError", fs |-> fs, fired |-> "none"]
    ELSE [err |-> "none", fs |-> fs, fired |-> "none"]

\* Mutant: once more than max_backups copies exist the oldest is removed
create_backup_Pruned(fs, clock, fault) ==
    IF ~fs.file.exists
    THEN [err |-> "FileNotFoundError", fs |-> fs, fired |-> "none"]
    ELSE LET copied == [fs.backups EXCEPT ![clock] = fs.file]
             kept == {s \in DOMAIN copied : copied[s].exists}
             oldest == CHOOSE s \in kept : \A u \in kept : s <= u
         IN  [err |-> "none", fired |-> "none",
              fs |-> [fs EXCEPT !.backups =
                         IF Cardinality(kept) > max_backups
                         THEN [copied EXCEPT ![oldest] = Absent] ELSE copied]]

\* Mutant: a backup name already taken is left as it is
create_backup_KeepFirst(fs, clock, fault) ==
    IF ~fs.file.exists
    THEN [err |-> "FileNotFoundError", fs |-> fs, fired |-> "none"]
    ELSE IF fault = "copy"
    THEN [err |-> "OSError", fs |-> fs, fired |-> "copy"]
    ELSE [err |-> "none", fired |-> "none",
          fs |-> IF fs.backups[clock].exists THEN fs
                 ELSE [fs EXCEPT !.backups = [fs.backups EXCEPT ![clock] = fs.file]]]

\* FileHandler.create_backup : [err, fs, fired]
create_backup(fs, clock, fault) ==
    IF ~fs.file.exists
    THEN [err |-> "FileNotFoundError", fs |-> fs, fired |-> "none"]
    ELSE IF fault = "copy"
    THEN [err |-> "OSError", fs |-> fs, fired |-> "copy"]
    ELSE [err |-> "none", fired |-> "none",
          fs |-> [fs EXCEPT !.backups = [fs.backups EXCEPT ![clock] = fs.file]]]

\* FileHandler.safe_write : [err, fs, fired]
\* The except clause unlinks the temporary file in every failing branch.
safe_write(fs, content, osname, fault) ==
    IF fault = "write_tmp"
    THEN [err |-> "OSError", fired |-> "write_tmp", fs |-> [fs EXCEPT !.tmp = Absent]]
    ELSE IF osname = "nt" /\ fs.file.exists /\ fault = "unlink"
    THEN [err |-> "OSError", fired |-> "unlink", fs |-> [fs EXCEPT !.tmp = Absent]]
    ELSE LET unlinked == IF osname = "nt" THEN [fs EXCEPT !.file = Absent] ELSE fs
         IN  IF fault = "replace"
             THEN [err |-> "OSError", fired |-> "replace",
                   fs |-> [unlinked EXCEPT !.tmp = Absent]]
             ELSE [err |-> "none", fired |-> "none",
                   fs |-> [unlinked EXCEPT !.file = content, !.tmp = Absent]]

\* Mutant: the document is replaced first and copied afterwards
WriteThenBackup(fs, content, clock, osname, fault) ==
    LET w == safe_write(fs, content, osname, fault)
        b == IF w.err = "none" /\ fs.file.exists
             THEN create_backup(w.fs, clock, fault)
             ELSE [err |-> "none", fs |-> w.fs, fired |-> w.fired]
    IN  [err |-> IF w.err = "none" /\ b.err = "none" THEN "none" ELSE "RepositoryError",
         fs |-> b.fs, fired |-> IF w.err = "none" THEN b.fired ELSE w.fired,
         sw |-> [called |-> TRUE, err |-> w.err, pre |-> fs.file, content |-> content]]

\* Mutant: the backup is attempted whether or not the file exists
BackupAlways(fs, content, clock, osname, fault) ==
    LET b == create_backup(fs, clock, fault)
    IN  IF b.err # "none"
        THEN [err |-> "RepositoryError", fs |-> b.fs, fired |-> b.fired, sw |-> NoCall]
        ELSE LET w == safe_write(b.fs, content, osname, fault)
             IN  [err |-> IF w.err = "none" THEN "none" ELSE "RepositoryError",
                  fs |-> w.fs, fired |-> w.fired,
                  sw |-> [called |-> TRUE, err |-> w.err, pre |-> b.fs.file,
                          content |-> content]]

\* Mutant: a failed backup is passed over and the document is written
BackupThenWrite_Ignore(fs, content, clock, osname, fault) ==
    LET b == IF fs.file.exists
             THEN create_backup(fs, clock, fault)
             ELSE [err |-> "none", fs |-> fs, fired |-> "none"]
        w == safe_write(b.fs, content, osname, fault)
    IN  [err |-> IF w.err = "none" THEN "none" ELSE "RepositoryError",
         fs |-> w.fs, fired |-> IF b.fired # "none" THEN b.fired ELSE w.fired,
         sw |-> [called |-> TRUE, err |-> w.err, pre |-> b.fs.file, content |-> content]]

\* The body shared by JsonTodoRepository._save_all_todos and
\* XmlTodoRepository._save_xml_root : [err, fs, fired, sw]
BackupThenWrite(fs, content, clock, osname, fault) ==
    LET b == IF fs.file.exists
             THEN create_backup(fs, clock, fault)
             ELSE [err |-> "none", fs |-> fs, fired |-> "none"]
    IN  IF b.err # "none"
        THEN [err |-> "RepositoryError", fs |-> b.fs, fired |-> b.fired, sw |-> NoCall]
        ELSE LET w == safe_write(b.fs, content, osname, fault)
             IN  [err |-> IF w.err = "none" THEN "none" ELSE "RepositoryError",
                  fs |-> w.fs, fired |-> w.fired,
                  sw |-> [called |-> TRUE, err |-> w.err, pre |-> b.fs.file,
                          content |-> content]]

_save_all_todos(fs, todos, clock, osname, fault) ==
    BackupThenWrite(fs, json_dumps(todos), clock, osname, fault)

_save_xml_root(fs, root, clock, osname, fault) ==
    BackupThenWrite(fs, ET_tostring(root), clock, osname, fault)

\* Mutant: a missing file is an error
_load_all_todos_Strict(fs, fault) ==
    IF ~fs.file.exists
    THEN [err |-> "RepositoryError", todos |-> <<>>, fired |-> "none", msg |-> ""]
    ELSE IF fs.file.kind = "json"
    THEN [err |-> "none", todos |-> fs.file.recs, fired |-> "none", msg |-> ""]
    ELSE [err |-> "RepositoryError", todos |-> <<>>, fired |-> "none", msg |-> ""]

\* Mutant: text that is not an object is read as the empty object
_load_all_todos_Lenient(fs, fault) ==
    IF fs.file.exists /\ fs.file.kind = "json"
    THEN [err |-> "none", todos |-> fs.file.recs, fired |-> "none", msg |-> ""]
    ELSE [err |-> "none", todos |-> <<>>, fired |-> "none", msg |-> ""]

\* JsonTodoRepository._load_all_todos : [err, todos, fired, msg]
\* msg is the text of the RepositoryError up to the parser's own words
_load_all_todos(fs, fault) ==
    IF ~fs.file.exists
    THEN [err |-> "none", todos |-> <<>>, fired |-> "none", msg |-> ""]
    ELSE IF fault = "read"
    THEN [err |-> "OSError", todos |-> <<>>, fired |-> "read", msg |-> ""]
    ELSE IF fs.file.kind = "blank"
    THEN [err |-> "none", todos |-> <<>>, fired |-> "none", msg |-> ""]
    ELSE IF fs.file.kind = "json"
    THEN [err |-> "none", todos |-> fs.file.recs, fired |-> "none", msg |-> ""]
    ELSE IF fs.file.kind = "array"
    THEN [err |-> "RepositoryError", todos |-> <<>>, fired |-> "none",
          msg |-> "Invalid JSON format: expected object"]
    ELSE [err |-> "RepositoryError", todos |-> <<>>, fired |-> "none",
          msg |-> "Invalid JSON format: "]

\* XmlTodoRepository._load_xml_root : [err, todos, fired]
_load_xml_root(fs, fault) ==
    IF ~fs.file.exists THEN [err |-> "none", todos |-> <<>>, fired |-> "none"]
    ELSE IF fault = "read" THEN [err |-> "OSError", todos |-> <<>>, fired |-> "read"]
    ELSE IF fs.file.kind = "xml" THEN [err |-> "none", todos |-> fs.file.recs, fired |-> "none"]
    ELSE [err |-> "RepositoryError", todos |-> <<>>, fired |-> "none"]

-----------------------------------------------------------------------------
\* Repository operations.  Each returns
\*   [err, fs, fired, sw, retBool, retInt, retTodos]
\* err: "none" or the class of the exception that reaches the caller;
\* fired: the injected fault that was hit, if any; sw: the safe_write call;
\* the ret fields: the return value (find_by_id returns <<>> or <<todo>>).

R(err, fs, fired, sw, b, n, ts) ==
    [err |-> err, fs |-> fs, fired |-> fired, sw |-> sw,
     retBool |-> b, retInt |-> n, retTodos |-> ts]

Wrap(err) == IF err = "none" THEN "none" ELSE "RepositoryError"

First(S) == CHOOSE k \in S : \A j \in S : k <= j

\* dict operations on the ordered dict
DictHas(todos, key) == \E k \in DOMAIN todos : todos[k].id = key
DictGet(todos, key) == todos[CHOOSE k \in DOMAIN todos : todos[k].id = key]
\* Mutant: the document is written with the saved record alone
DictSet_Alone(todos, key, val) == <<val>>

\* Mutant: the assignment adds a member without looking for the key
DictSet_Append(todos, key, val) == Append(todos, val)

DictSet(todos, key, val) ==
    IF DictHas(todos, key)
    THEN [k \in DOMAIN todos |-> IF todos[k].id = key THEN val ELSE todos[k]]
    ELSE Append(todos, val)
\* Mutant: del removes nothing
DictDel_Keep(todos, key) == todos

DictDel(todos, key) == SelectSeq(todos, LAMBDA d : d.id # key)

Json_save(fs, todo, clock, osname, fault) ==
    LET l == _load_all_todos(fs, fault) IN
    IF l.err # "none" THEN R("RepositoryError", fs, l.fired, NoCall, FALSE, 0, <<>>)
    ELSE LET w == _save_all_todos(fs, DictSet(l.todos, todo.id, _todo_to_dict(todo)),
                                  clock, osname, fault)
         IN  R(Wrap(w.err), w.fs, w.fired, w.sw, FALSE, 0, <<>>)

Json_find_by_id(fs, todo_id, fault) ==
    LET l == _load_all_todos(fs, fault) IN
    IF l.err # "none" THEN R("RepositoryError", fs, l.fired, NoCall, FALSE, 0, <<>>)
    ELSE IF DictHas(l.todos, todo_id)
    THEN LET d == _dict_to_todo(DictGet(l.todos, todo_id))
         IN  IF d.ok THEN R("none", fs, "none", NoCall, FALSE, 0, <<d.todo>>)
             ELSE R("RepositoryError", fs, "none", NoCall, FALSE, 0, <<>>)
    ELSE R("none", fs, "none", NoCall, FALSE, 0, <<>>)

Json_find_all(fs, fault) ==
    LET l == _load_all_todos(fs, fault) IN
    IF l.err # "none" THEN R("RepositoryError", fs, l.fired, NoCall, FALSE, 0, <<>>)
    ELSE IF \A k \in DOMAIN l.todos : _dict_to_todo(l.todos[k]).ok
    THEN R("none", fs, "none", NoCall, FALSE, 0,
           [k \in DOMAIN l.todos |-> _dict_to_todo(l.todos[k]).todo])
    ELSE R("RepositoryError", fs, "none", NoCall, FALSE, 0, <<>>)

Json_delete(fs, todo_id, clock, osname, fault) ==
    LET l == _load_all_todos(fs, fault) IN
    IF l.err # "none" THEN R("RepositoryError", fs, l.fired, NoCall, FALSE, 0, <<>>)
    ELSE IF DictHas(l.todos, todo_id)
    THEN LET w == _save_all_todos(fs, DictDel(l.todos, todo_id), clock, osname, fault)
         IN  R(Wrap(w.err), w.fs, w.fired, w.sw, w.err = "none", 0, <<>>)
    ELSE R("none", fs, "none", NoCall, FALSE, 0, <<>>)

Json_count(fs, fault) ==
    LET l == _load_all_todos(fs, fault)
    IN  R(l.err, fs, l.fired, NoCall, FALSE, Len(l.todos), <<>>)

\* XPath  .//todo[@id='...']
HasId(e, todo_id) == e.id = Some(todo_id)

\* root.findall(".//todo[@id='...']"), as positions among the children
Hits(root, todo_id) == {k \in DOMAIN root : HasId(root[k], todo_id)}

Xml_save(fs, todo, clock, osname, fault) ==
    LET l == _load_xml_root(fs, fault) IN
    IF l.err # "none" THEN R("RepositoryError", fs, l.fired, NoCall, FALSE, 0, <<>>)
    ELSE LET kept == SelectSeq(l.todos, LAMBDA e : ~HasId(e, todo.id))
             w == _save_xml_root(fs, Append(kept, _todo_to_xml_element(todo)),
                                 clock, osname, fault)
         IN  R(Wrap(w.err), w.fs, w.fired, w.sw, FALSE, 0, <<>>)

Xml_find_by_id(fs, todo_id, fault) ==
    LET l == _load_xml_root(fs, fault) IN
    IF l.err # "none" THEN R("RepositoryError", fs, l.fired, NoCall, FALSE, 0, <<>>)
    ELSE LET hits == Hits(l.todos, todo_id) IN
         IF hits # {}
         THEN LET d == _xml_element_to_todo(l.todos[First(hits)])
              IN  IF d.ok THEN R("none", fs, "none", NoCall, FALSE, 0, <<d.todo>>)
                  ELSE R("RepositoryError", fs, "none", NoCall, FALSE, 0, <<>>)
         ELSE R("none", fs, "none", NoCall, FALSE, 0, <<>>)

Xml_find_all(fs, fault) ==
    LET l == _load_xml_root(fs, fault) IN
    IF l.err # "none" THEN R("RepositoryError", fs, l.fired, NoCall, FALSE, 0, <<>>)
    ELSE IF \A k \in DOMAIN l.todos : _xml_element_to_todo(l.todos[k]).ok
    THEN R("none", fs, "none", NoCall, FALSE, 0,
           [k \in DOMAIN l.todos |-> _xml_element_to_todo(l.todos[k]).todo])
    ELSE R("RepositoryError", fs, "none", NoCall, FALSE, 0, <<>>)

Xml_delete(fs, todo_id, clock, osname, fault) ==
    LET l == _load_xml_root(fs, fault) IN
    IF l.err # "none" THEN R("RepositoryError", fs, l.fired, NoCall, FALSE, 0, <<>>)
    ELSE LET hits == Hits(l.todos, todo_id) IN
         IF hits # {}
         THEN LET rest == [k \in 1..(Len(l.todos) - 1) |->
                              IF k < First(hits) THEN l.todos[k] ELSE l.todos[k + 1]]
                  w == _save_xml_root(fs, rest, clock, osname, fault)
              IN  R(Wrap(w.err), w.fs, w.fired, w.sw, w.err = "none", 0, <<>>)
         ELSE R("none", fs, "none", NoCall, FALSE, 0, <<>>)

Xml_count(fs, fault) ==
    LET l == _load_xml_root(fs, fault)
    IN  R(l.err, fs, l.fired, NoCall, FALSE, Len(l.todos), <<>>)

\* The TodoRepository interface, dispatched on the class of the instance
save(f, fs, todo, clock, osname, fault) ==
    IF f = "json" THEN Json_save(fs, todo, clock, osname, fault)
    ELSE Xml_save(fs, todo, clock, osname, fault)

find_by_id(f, fs, todo_id, fault) ==
    IF f = "json" THEN Json_find_by_id(fs, todo_id, fault)
    ELSE Xml_find_by_id(fs, todo_id, fault)

find_all(f, fs, fault) ==
    IF f = "json" THEN Json_find_all(fs, fault) ELSE Xml_find_all(fs, fault)

delete(f, fs, todo_id, clock, osname, fault) ==
    IF f = "json" THEN Json_delete(fs, todo_id, clock, osname, fault)
    ELSE Xml_delete(fs, todo_id, clock, osname, fault)

count(f, fs, fault) ==
    IF f = "json" THEN Json_count(fs, fault) ELSE Xml_count(fs, fault)

\* Mutant: every id is reported as stored
exists_Always(f, fs, todo_id, fault) ==
    [find_by_id(f, fs, todo_id, fault) EXCEPT !.err = "none", !.retBool = TRUE,
                                              !.retTodos = <<>>]

\* exists(): find_by_id(todo_id) is not None
exists(f, fs, todo_id, fault) ==
    LET r == find_by_id(f, fs, todo_id, fault)
    IN  [r EXCEPT !.retBool = (r.err = "none" /\ Len(r.retTodos) > 0),
                  !.retTodos = <<>>]

\* Mutant: update writes the record whether or not the id is stored
update_Upsert(f, fs, todo, clock, osname, fault) ==
    save(f, fs, todo, clock, osname, fault)

\* update(): the fault, if any, is met by whichever file access comes first
update(f, fs, todo, clock, osname, fault) ==
    LET e == exists(f, fs, todo.id, fault) IN
    IF e.err # "none" THEN e
    ELSE IF ~e.retBool THEN R("TodoNotFoundError", fs, "none", NoCall, FALSE, 0, <<>>)
    ELSE save(f, fs, todo, clock, osname, fault)

\* JsonTodoRepository.__init__ / _ensure_file_exists : the outcomes [err, fs, fired].
\* write_text is not atomic: when it fails the file is not created, or is
\* left created and empty.
Json_init(fs, fault) ==
    IF fs.file.exists THEN {[err |-> "none", fs |-> fs, fired |-> "none", sw |-> NoCall]}
    ELSE IF fault = "write"
    THEN {[err |-> "OSError", fs |-> [fs EXCEPT !.file = c], fired |-> "write", sw |-> NoCall]
            : c \in {Absent, Text("blank", <<>>)}}
    ELSE {[err |-> "none", fs |-> [fs EXCEPT !.file = Text("json", <<>>)],
           fired |-> "none", sw |-> NoCall]}

\* XmlTodoRepository.__init__ / _ensure_file_exists
Xml_init(fs, clock, osname, fault) ==
    IF fs.file.exists THEN {[err |-> "none", fs |-> fs, fired |-> "none", sw |-> NoCall]}
    ELSE {_save_xml_root(fs, <<>>, clock, osname, fault)}

-----------------------------------------------------------------------------
\* The todos a caller holds: built by Todo(...) and changed by Todo's methods

Ids == {"id1", "id2"}

BuyMilk == TodoInit("id1", Some(<<"m">>), None, FALSE, "low", <<1, 0>>, None).todo
Edited == update_description(mark_completed(BuyMilk, <<2, 5>>), Some(<<>>), <<2, 5>>)
Blanked == update_title(BuyMilk, <<WS>>, <<2, 0>>)
Second == TodoInit("id2", Some(<<WS, "m">>), Some(<<"d">>), FALSE, "medium", <<1, 5>>, None).todo

Todos == {BuyMilk, Edited, Blanked, Second}

\* Todo(...) accepts the todo's own fields
TodoValid(t) == TodoInit(t.id, Some(t.title), t.description, t.completed,
                         t.priority, t.created_at, t.updated_at) = [ok |-> TRUE, todo |-> t]

-----------------------------------------------------------------------------
\* State machine

Seconds == 0..MaxClock

NoLast ==
    [op |-> "none", id |-> "", todo |-> <<>>, err |-> "none", fired |-> "none",
     retBool |-> FALSE, retInt |-> 0, retTodos |-> <<>>, sw |-> NoCall,
     pre |-> FS(Absent, Absent, [s \in Seconds |-> Absent]), preDir |-> FALSE,
     at |-> 0]

\* The callers of the step-wise save() calls
Procs == {1, 2}

\* A caller outside any call
IdleProc ==
    [pc |-> "idle", todo |-> NoTodo, content |-> Absent, pre |-> Absent,
     exc |-> "none", failed |-> "none", err |-> "none",
     op |-> "none", ret |-> FALSE, left |-> Absent, after |-> {}, checked |-> {},
     changed |-> FALSE, lost |-> FALSE]

\* No Todo object yet
NoEnt == [made |-> FALSE, ok |-> FALSE, todo |-> NoTodo, born |-> NoTodo, nmut |-> 0, at |-> <<0, 0>>]

\* No second store
NoTwin == FS(Absent, Absent, [s \in Seconds |-> Absent])

\* Before the first repository is constructed: the path is free, its parent
\* directory may or may not exist
Init ==
    /\ fmt \in {"json", "xml"}
    /\ os_name \in {"posix", "nt"}
    /\ constructed = FALSE
    /\ dir \in BOOLEAN
    /\ file = Absent
    /\ tmp = Absent
    /\ backups = [s \in Seconds |-> Absent]
    /\ now = 0
    /\ nops = 0
    /\ last = NoLast
    /\ saved = {}
    /\ nfaults = 0
    /\ procs = [p \in Procs |-> IdleProc]
    /\ ent = NoEnt
    /\ twin = NoTwin

Cur == FS(file, tmp, backups)

\* An I/O failure may be injected while the budget lasts
MayFail(fault) == fault = "none" \/ nfaults < MaxFaults

\* The effect of a call with result r on the files and the call record
Commit(opname, todo_id, todo, r) ==
    /\ file' = r.fs.file
    /\ tmp' = r.fs.tmp
    /\ backups' = r.fs.backups
    /\ nfaults' = IF r.fired # "none" THEN nfaults + 1 ELSE nfaults
    /\ last' = [op |-> opname, id |-> todo_id, todo |-> todo, err |-> r.err,
                fired |-> r.fired, retBool |-> r.retBool, retInt |-> r.retInt,
                retTodos |-> r.retTodos, sw |-> r.sw, pre |-> Cur, preDir |-> dir,
                at |-> now]

Upserted(S, todo) == {t \in S : t.id # todo.id} \cup {todo}

\* repo = JsonTodoRepository(path) / XmlTodoRepository(path)
Construct(fault) ==
    /\ nops < MaxOps /\ MayFail(fault)
    /\ \E r \in (IF fmt = "json" THEN Json_init(Cur, fault)
                 ELSE Xml_init(Cur, now, os_name, fault)) :
          /\ Commit("init", "", <<>>,
                    R(r.err, r.fs, r.fired, r.sw, FALSE, 0, <<>>))
          /\ constructed' = (constructed \/ r.err = "none")
    /\ dir' = TRUE
    /\ UNCHANGED <<fmt, os_name, now, nops, saved, procs, ent, twin>>

Save(todo, fault) ==
    /\ constructed /\ nops < MaxOps /\ MayFail(fault)
    /\ LET r == save(fmt, Cur, todo, now, os_name, fault)
       IN  /\ Commit("save", todo.id, <<todo>>, r)
           /\ saved' = IF r.err = "none" THEN Upserted(saved, todo) ELSE saved
    /\ nops' = nops + 1
    /\ UNCHANGED <<fmt, os_name, constructed, dir, now, procs, ent, twin>>

Update(todo, fault) ==
    /\ constructed /\ nops < MaxOps /\ MayFail(fault)
    /\ LET r == update(fmt, Cur, todo, now, os_name, fault)
       IN  /\ Commit("update", todo.id, <<todo>>, r)
           /\ saved' = IF r.err = "none" THEN Upserted(saved, todo) ELSE saved
    /\ nops' = nops + 1
    /\ UNCHANGED <<fmt, os_name, constructed, dir, now, procs, ent, twin>>

Delete(todo_id, fault) ==
    /\ constructed /\ nops < MaxOps /\ MayFail(fault)
    /\ LET r == delete(fmt, Cur, todo_id, now, os_name, fault)
       IN  /\ Commit("delete", todo_id, <<>>, r)
           /\ saved' = IF r.err = "none" /\ r.retBool
                       THEN {t \in saved : t.id # todo_id} ELSE saved
    /\ nops' = nops + 1
    /\ UNCHANGED <<fmt, os_name, constructed, dir, now, procs, ent, twin>>

\* The wall clock reaches the next second before a further call
Tick ==
    /\ nops < MaxOps /\ now < MaxClock
    /\ now' = now + 1
    /\ UNCHANGED <<fmt, os_name, constructed, dir, file, tmp, backups, nops, last, saved, nfaults,
                   procs, ent, twin>>

Next ==
    \/ \E fault \in InitFaults : Construct(fault)
    \/ \E todo \in Todos, fault \in WriteFaults : Save(todo, fault)
    \/ \E todo \in Todos, fault \in UpdateFaults : Update(todo, fault)
    \/ \E todo_id \in Ids, fault \in DeleteFaults : Delete(todo_id, fault)
    \/ Tick

Spec == Init /\ [][Next]_vars

-----------------------------------------------------------------------------
\* Vocabulary of the properties

IsWrite(opname) == opname \in {"save", "update", "delete"}

RecHasId(rec, todo_id) == IF fmt = "json" THEN rec.id = todo_id ELSE HasId(rec, todo_id)

WithId(f, todo_id) == {k \in DOMAIN f.recs : RecHasId(f.recs[k], todo_id)}

\* The record a save of todo puts in the document
Encoded(todo) ==
    IF fmt = "json" THEN _todo_to_dict(todo) ELSE ElemRoundTrip(_todo_to_xml_element(todo))

NumBackups == Cardinality({s \in Seconds : backups[s].exists})

ToSet(seq) == {seq[k] : k \in DOMAIN seq}

\* The call recorded in last wrote the document anew
Rewrote == last.sw.called /\ last.sw.err = "none"

-----------------------------------------------------------------------------
\* C1: when safe_write returns normally the target holds exactly
\* content; when it fails at any step the target is what it was before the
\* call (same content, or still absent).
C1_FailureLeavesTarget ==
    last.sw.called =>
        /\ last.sw.err = "none" => file = last.sw.content
        /\ last.sw.err # "none" => file = last.sw.pre

\* C2: save is an upsert by id; without an I/O failure it succeeds whether or
\* not the id is already stored; after it returns the document holds exactly
\* one record with the id, the encoding of the todo just saved; count() is
\* one higher if the id was absent and the same if it was present.
C2_SaveIsUpsert ==
    last.op = "save" =>
        /\ last.fired = "none" => last.err = "none"
        /\ last.err = "none" =>
              /\ Cardinality(WithId(file, last.id)) = 1
              /\ file.recs[First(WithId(file, last.id))] = Encoded(Val(last.todo))
              /\ count(fmt, Cur, "none").retInt =
                    count(fmt, last.pre, "none").retInt
                      + (IF WithId(last.pre.file, last.id) = {} THEN 1 ELSE 0)

\* C2 witness: a save over a stored record with other field values
C2_Witness ==
    /\ last.op = "save" /\ last.err = "none"
    /\ WithId(last.pre.file, last.id) # {}
    /\ last.pre.file.recs[First(WithId(last.pre.file, last.id))] # Encoded(Val(last.todo))
    /\ count(fmt, Cur, "none").retInt = 2

\* C3: without an I/O failure, update of an id that is not in the document
\* raises TodoNotFoundError, and update of an id that is in it does what save
\* does: same outcome, same files.
C3_UpdateIsSaveWhenPresent ==
    (last.op = "update" /\ last.fired = "none") =>
        IF WithId(last.pre.file, last.id) = {}
        THEN last.err = "TodoNotFoundError" /\ Cur = last.pre
        ELSE LET s == save(fmt, last.pre, Val(last.todo), last.at, os_name, "none")
             IN  last.err = s.err /\ Cur = s.fs

\* C4: without an I/O failure delete never raises and returns true exactly
\* when the id was in the document; after true, find_by_id gives None and
\* count() is one lower; after false the files are as before.
C4_DeleteResult ==
    (last.op = "delete" /\ last.fired = "none") =>
        /\ last.err = "none"
        /\ last.retBool = (WithId(last.pre.file, last.id) # {})
        /\ last.retBool =>
              /\ find_by_id(fmt, Cur, last.id, "none").err = "none"
              /\ find_by_id(fmt, Cur, last.id, "none").retTodos = <<>>
              /\ ~exists(fmt, Cur, last.id, "none").retBool
              /\ count(fmt, Cur, "none").retInt = count(fmt, last.pre, "none").retInt - 1
        /\ ~last.retBool => Cur = last.pre

\* C4 witness: a delete that removed one of several records
C4_Witness ==
    /\ last.op = "delete" /\ last.retBool
    /\ count(fmt, last.pre, "none").retInt >= 2
    /\ count(fmt, Cur, "none").retInt = count(fmt, last.pre, "none").retInt - 1

\* C5: whatever fails in reading, parsing or writing the document, a
\* repository operation raises nothing but RepositoryError (update: or
\* TodoNotFoundError).
C5_OnlyRepositoryError ==
    /\ IsWrite(last.op) => last.err \in {"none", "RepositoryError", "TodoNotFoundError"}
    /\ constructed =>
          \A fault \in ReadFaults :
             /\ count(fmt, Cur, fault).err \in {"none", "RepositoryError"}
             /\ find_all(fmt, Cur, fault).err \in {"none", "RepositoryError"}
             /\ \A todo_id \in Ids :
                   /\ find_by_id(fmt, Cur, todo_id, fault).err \in {"none", "RepositoryError"}
                   /\ exists(fmt, Cur, todo_id, fault).err \in {"none", "RepositoryError"}

\* C6: a valid todo that was saved is read back by find_by_id equal to
\* itself, field for field.
C6_RoundTrip ==
    (last.op = "save" /\ last.err = "none" /\ TodoValid(Val(last.todo))) =>
        /\ find_by_id(fmt, Cur, last.id, "none").err = "none"
        /\ find_by_id(fmt, Cur, last.id, "none").retTodos = last.todo

FirstSave == last.op = "save" /\ last.err = "none" /\ nfaults = 0 /\ nops = 1

SecondSave ==
    last.op = "save" /\ last.err = "none" /\ nfaults = 0 /\ nops = 2 /\ Cardinality(saved) = 2

\* C7 (as stated): from a store constructed in an empty directory, the first
\* save leaves no backup file, and the second save, of a second todo, leaves
\* exactly one, holding the document as it was just before the second write.
C7_NoBackupOnFirstSave ==
    /\ FirstSave => NumBackups = 0
    /\ SecondSave => NumBackups = 1 /\ backups[last.at] = last.pre.file

\* C7 (amended): the constructor has already written the empty document, so
\* the first save leaves one backup file, holding that empty document; the
\* second save leaves a backup holding the document as it was just before
\* the second write, and then there are one or two backup files, any other
\* one being the backup the first save made.
C7_BackupOnEverySave ==
    /\ FirstSave =>
          /\ NumBackups = 1
          /\ backups[last.at] = last.pre.file
          /\ last.pre.file.exists /\ last.pre.file.recs = <<>>
    /\ SecondSave =>
          /\ NumBackups \in {1, 2}
          /\ backups[last.at] = last.pre.file
          /\ Len(last.pre.file.recs) = 1
          /\ \A s \in Seconds \ {last.at} :
                backups[s].exists => backups[s].recs = <<>>

\* C7 witness: two saves in different seconds, two backup files
C7_Witness == SecondSave /\ NumBackups = 2

\* C8: a save, update or delete that goes on to replace an existing document
\* has first copied it: the backup of that second holds the document as it
\* was before the call, not what the call wrote.
C8_BackupBeforeWrite ==
    (IsWrite(last.op) /\ last.sw.called /\ last.pre.file.exists) =>
        /\ backups[last.at] = last.pre.file
        /\ last.sw.pre = last.pre.file

\* C8 witness: a delete replaced the document; the backup is the old document
C8_Witness ==
    /\ last.op = "delete" /\ Rewrote /\ last.pre.file.exists
    /\ file # last.pre.file /\ backups[last.at] # file

\* C9: constructing a repository on a path that holds a document leaves the
\* files as they are, and the new instance reads exactly the todos saved
\* before: find_all returns them all and nothing else, find_by_id each one.
C9_FreshInstanceReadsSaved ==
    (/\ last.op = "init" /\ last.err = "none" /\ last.pre.file.exists
     /\ nfaults = 0 /\ \A t \in saved : TodoValid(t)) =>
        /\ Cur = last.pre
        /\ find_all(fmt, Cur, "none").err = "none"
        /\ ToSet(find_all(fmt, Cur, "none").retTodos) = saved
        /\ \A t \in saved : find_by_id(fmt, Cur, t.id, "none").retTodos = <<t>>

\* C10: without an I/O failure, constructing a repository on a path with no
\* file succeeds, leaves the parent directory and an empty document of the
\* format, makes no backup, and count() is 0 and find_all() empty.
C10_InitWritesEmptyDocument ==
    (last.op = "init" /\ ~last.pre.file.exists /\ last.fired = "none") =>
        /\ last.err = "none" /\ constructed /\ dir
        /\ file = Text(fmt, <<>>)
        /\ backups = last.pre.backups /\ tmp = Absent
        /\ count(fmt, Cur, "none").err = "none"
        /\ count(fmt, Cur, "none").retInt = 0
        /\ find_all(fmt, Cur, "none").err = "none"
        /\ find_all(fmt, Cur, "none").retTodos = <<>>

\* C10 witness: the constructor made the directory and the document
C10_Witness ==
    /\ last.op = "init" /\ ~last.pre.file.exists /\ ~last.preDir
    /\ last.err = "none" /\ file.exists /\ dir

-----------------------------------------------------------------------------
\* The document file under the hands of somebody else: between two calls of
\* the store the file is removed or replaced by a hand-written text.

GoodDict == _todo_to_dict(BuyMilk)
UrgentDict == [_todo_to_dict(Second) EXCEPT !.priority = "urgent"]

GoodElem == ElemRoundTrip(_todo_to_xml_element(BuyMilk))
UrgentElem ==
    [ElemRoundTrip(_todo_to_xml_element(Second)) EXCEPT !.priority = Some(Some(<<"urgent">>))]

\* <todo id="id1"><title>m</title></todo>
BareElem == MkElem(Some("id1"), Some(Some(<<"m">>)), None, None, None, None, None)

RequiredFields == <<"id", "title", "completed", "priority", "created_at">>

\* A complete element with one required part taken out
Lacking(field) == [GoodElem EXCEPT ![field] = None]

EnvDocs(f) ==
    IF f = "json"
    THEN {Absent, Text("blank", <<>>), Text("array", <<>>), Text("malformed", <<>>),
          Text("json", <<UrgentDict>>), Text("json", <<GoodDict, UrgentDict>>)}
    ELSE {Absent, Text("malformed", <<>>), Text("xml", <<BareElem>>),
          Text("xml", <<UrgentElem>>), Text("xml", <<GoodElem, UrgentElem>>)}
         \cup {Text("xml", <<Lacking(RequiredFields[k])>>) : k \in DOMAIN RequiredFields}

Tamper(content) ==
    /\ constructed /\ nops < MaxOps
    /\ content # file
    /\ file' = content
    /\ last' = [NoLast EXCEPT !.op = "tamper", !.pre = Cur, !.preDir = dir, !.at = now]
    /\ nops' = nops + 1
    /\ UNCHANGED <<fmt, os_name, constructed, dir, tmp, backups, now, saved, nfaults, procs, ent, twin>>

InitEnv == Init /\ os_name = "posix" /\ dir = TRUE

NextEnv ==
    \/ Construct("none")
    \/ \E todo \in {BuyMilk, Second} : Save(todo, "none")
    \/ Update(Edited, "none")
    \/ \E todo_id \in Ids : Delete(todo_id, "none")
    \/ \E content \in EnvDocs(fmt) : Tamper(content)

SpecEnv == InitEnv /\ [][NextEnv]_vars

\* C11: when the document file has been removed behind a constructed store,
\* find_by_id gives None, find_all the empty list, count 0, delete returns
\* false and touches nothing, none of them raising; a save then succeeds and
\* the document it writes holds the saved todo and nothing else.
C11_RemovedFileIsEmpty ==
    /\ (constructed /\ ~file.exists) =>
          /\ find_all(fmt, Cur, "none").err = "none"
          /\ find_all(fmt, Cur, "none").retTodos = <<>>
          /\ count(fmt, Cur, "none").err = "none"
          /\ count(fmt, Cur, "none").retInt = 0
          /\ \A todo_id \in Ids :
                /\ find_by_id(fmt, Cur, todo_id, "none").err = "none"
                /\ find_by_id(fmt, Cur, todo_id, "none").retTodos = <<>>
    /\ (last.op = "delete" /\ ~last.pre.file.exists) =>
          last.err = "none" /\ ~last.retBool /\ Cur = last.pre
    /\ (last.op = "save" /\ ~last.pre.file.exists) =>
          last.err = "none" /\ file = Text(fmt, <<Encoded(Val(last.todo))>>)

\* C11 witness: a todo was saved, the file removed, another todo saved
C11_Witness ==
    /\ last.op = "save" /\ ~last.pre.file.exists /\ last.err = "none"
    /\ Cardinality(saved) = 2 /\ Len(file.recs) = 1

-----------------------------------------------------------------------------
\* The exceptions of the decoders, as [exc, names]: the class that leaves the
\* function, and the field names that occur in its message.

Exc(exc, names) == [exc |-> exc, names |-> names]

\* Todo(...): the title validator's TodoValidationError is not a ValueError,
\* so it leaves the constructor as it is; what the declared types and lengths
\* reject is collected in one ValidationError
TodoExc(i, title, description, priority) ==
    IF ~IsNone(title) /\ Len(Val(title)) <= MaxTitleLen /\ Len(strip(Val(title))) = 0
    THEN Exc("TodoValidationError", {"title"})
    ELSE LET bad == {f \in {"id", "title", "description", "priority"} :
                       \/ f = "id" /\ IsNone(i)
                       \/ f = "title" /\ (IsNone(title) \/ Len(Val(title)) > MaxTitleLen)
                       \/ f = "description" /\ ~IsNone(description)
                                            /\ Len(Val(description)) > MaxDescLen
                       \/ f = "priority" /\ priority \notin Priority}
         IN  IF bad = {} THEN Exc("none", {}) ELSE Exc("ValidationError", bad)

\* XmlTodoRepository._xml_element_to_todo, statement by statement
_xml_element_to_todo_exc(element) ==
    IF IsNone(element.title) THEN Exc("AttributeError", {})
    ELSE IF IsNone(element.completed) \/ IsNone(Val(element.completed))
    THEN Exc("AttributeError", {})
    ELSE IF IsNone(element.priority) THEN Exc("AttributeError", {})
    ELSE IF ~PriorityOk(Val(element.priority)) THEN Exc("ValueError", {"priority"})
    ELSE IF IsNone(element.created_at) THEN Exc("AttributeError", {})
    ELSE IF IsNone(Val(element.created_at)) THEN Exc("TypeError", {})
    ELSE IF ~IsNone(element.updated_at) /\ IsNone(Val(element.updated_at))
    THEN Exc("TypeError", {})
    ELSE TodoExc(element.id, Val(element.title),
                 IF ~IsNone(element.description) THEN Val(element.description) ELSE None,
                 Val(Val(element.priority))[1])

\* The required parts an element lacks, as positions in RequiredFields
MissingOf(element) == {k \in DOMAIN RequiredFields : IsNone(element[RequiredFields[k]])}

\* C12: decoding a <todo> element that lacks the id attribute or one of the
\* children title, completed, priority, created_at raises RepositoryError,
\* and the message names the first part that is missing, in the order id,
\* title, completed, priority, created_at.
C12_MissingFieldNamed ==
    (fmt = "xml" /\ file.exists /\ file.kind = "xml") =>
        \A k \in DOMAIN file.recs :
            MissingOf(file.recs[k]) # {} =>
                _xml_element_to_todo_exc(file.recs[k]) =
                    Exc("RepositoryError", {RequiredFields[First(MissingOf(file.recs[k]))]})

\* C13: in the JSON store a document file that is empty or blank reads as
\* the empty collection; text whose top level is not an object fails with
\* RepositoryError "Invalid JSON format: expected object"; malformed text fails
\* with RepositoryError "Invalid JSON format: ..."; and find_all returns the
\* decoding of every member of the document, in order, or raises and returns
\* nothing.
C13_JsonDecoding ==
    (fmt = "json" /\ constructed /\ file.exists) =>
        LET l == _load_all_todos(Cur, "none")
            fa == find_all(fmt, Cur, "none")
        IN  /\ file.kind = "blank" =>
                  /\ l.err = "none" /\ l.todos = <<>>
                  /\ fa.err = "none" /\ fa.retTodos = <<>>
                  /\ count(fmt, Cur, "none").retInt = 0
            /\ file.kind = "array" =>
                  /\ l.err = "RepositoryError"
                  /\ l.msg = "Invalid JSON format: expected object"
                  /\ fa.err = "RepositoryError"
            /\ file.kind = "malformed" =>
                  /\ l.err = "RepositoryError"
                  /\ l.msg = "Invalid JSON format: "
                  /\ fa.err = "RepositoryError"
            /\ fa.err = "none" =>
                  /\ Len(fa.retTodos) = Len(file.recs)
                  /\ \A k \in DOMAIN file.recs :
                        _dict_to_todo(file.recs[k]) = [ok |-> TRUE, todo |-> fa.retTodos[k]]
            /\ fa.err # "none" => fa.retTodos = <<>>

\* C13 witness: a document whose first member decodes and whose second does
\* not; find_all raises instead of returning the first
C13_Witness ==
    /\ fmt = "json" /\ constructed /\ last.op = "tamper"
    /\ file = Text("json", <<GoodDict, UrgentDict>>)
    /\ _dict_to_todo(file.recs[1]).ok
    /\ find_all(fmt, Cur, "none").err = "RepositoryError"

\* A stored record that carries a priority value outside the enumeration
RecPriorityBad(rec) ==
    IF fmt = "json" THEN rec.priority \notin Priority
    ELSE ~IsNone(rec.priority) /\ ~PriorityOk(Val(rec.priority))

\* C14: find_by_id and find_all never return a todo whose priority is not
\* low, medium or high; when the record they have to decode carries another
\* value they raise RepositoryError, in the JSON and in the XML store.
C14_PriorityOnRead ==
    (constructed /\ file.exists /\ file.kind = fmt) =>
        /\ \A k \in DOMAIN find_all(fmt, Cur, "none").retTodos :
              find_all(fmt, Cur, "none").retTodos[k].priority \in Priority
        /\ (\E k \in DOMAIN file.recs : RecPriorityBad(file.recs[k])) =>
              find_all(fmt, Cur, "none").err = "RepositoryError"
        /\ \A todo_id \in Ids :
              LET r == find_by_id(fmt, Cur, todo_id, "none") IN
              /\ \A k \in DOMAIN r.retTodos : r.retTodos[k].priority \in Priority
              /\ (/\ WithId(file, todo_id) # {}
                  /\ RecPriorityBad(file.recs[First(WithId(file, todo_id))])) =>
                    r.err = "RepositoryError"

\* C14 witness: an XML document with a good record and one of priority
\* "urgent"; the first is found, looking up the second raises
C14_Witness ==
    /\ fmt = "xml" /\ constructed
    /\ file = Text("xml", <<GoodElem, UrgentElem>>)
    /\ find_by_id(fmt, Cur, "id1", "none").retTodos = <<BuyMilk>>
    /\ find_by_id(fmt, Cur, "id2", "none").err = "RepositoryError"

-----------------------------------------------------------------------------
\* save() statement by statement: every access to the file system is a step
\* of its own, so that other callers, failures and a crash of the process
\* fall between them.  procs[p] is the call of caller p:
\*   pc       the statement it is at
\*   todo     the argument
\*   content  the text it is going to write
\*   pre      the document file when the call began
\*   exc      the exception raised inside FileHandler.safe_write, if any
\*   failed   the statement that raised it
\*   err      the exception that left save()
\*   op       the operation called
\*   ret      the value a delete returns
\*   left     the document file at the moment the call returned
\*   after    the callers that had returned when this call returned
\*   checked  the callers that had returned when update() looked for the id
\*   changed  the call has changed the document file
\*   lost     another caller had the temporary file in use while this call
\*            was between opening it and renaming it

\* A file that was opened for writing and not written to the end
Partial == Text("partial", <<>>)

\* the documents a call may find
StepDocs(f) ==
    {Absent, Text(f, <<>>),
     Text(f, <<IF f = "json" THEN _todo_to_dict(Second)
               ELSE ElemRoundTrip(_todo_to_xml_element(Second))>>)}

\* The text save() hands to _save_all_todos / _save_xml_root
DocWith(f, todos, todo) ==
    IF f = "json"
    THEN json_dumps(DictSet(todos, todo.id, _todo_to_dict(todo)))
    ELSE ET_tostring(Append(SelectSeq(todos, LAMBDA e : ~HasId(e, todo.id)),
                            _todo_to_xml_element(todo)))

\* Mutant: the text is written over the target itself
OpenForWrite_InPlace(fs) == [fs EXCEPT !.file = Partial]

\* temp_path.write_text: open() creates or truncates the temporary file
OpenForWrite(fs) == [fs EXCEPT !.tmp = Partial]

\* Mutant: the rename drops the temporary file and leaves the target
ReplaceOnto_Keep(fs) == [fs EXCEPT !.tmp = Absent]

\* Mutant: the rename empties the target and drops the temporary file
ReplaceOnto_Empty(fs) == [fs EXCEPT !.file = Partial, !.tmp = Absent]

\* temp_path.replace(file_path)
ReplaceOnto(fs) == [fs EXCEPT !.file = fs.tmp, !.tmp = Absent]

\* Mutant: the except clause re-raises without removing anything
CleanUp_Skip(fs) == fs

\* if temp_path.exists(): temp_path.unlink()
CleanUp(fs) == [fs EXCEPT !.tmp = Absent]

InFlight(pc) ==
    pc \in {"load", "exists", "backup", "open_tmp", "write_tmp", "unlink", "replace", "cleanup"}

\* One step of caller p: the files after it, its call record after it, and
\* whether an injected failure was hit
Step(p, fs, proc, hit) ==
    /\ file' = fs.file
    /\ tmp' = fs.tmp
    /\ backups' = fs.backups
    /\ procs' = [procs EXCEPT ![p] = proc]
    /\ nfaults' = IF hit THEN nfaults + 1 ELSE nfaults
    /\ UNCHANGED <<fmt, os_name, constructed, dir, now, nops, last, saved, ent, twin>>

\* The call of caller p returns, with err if it raises, the document file
\* being f
Returns(p, err, f) ==
    [procs[p] EXCEPT !.pc = "done", !.err = err, !.left = f,
                     !.after = {q \in Procs \ {p} : procs[q].pc = "done"}]

Raised(proc, exc) == [proc EXCEPT !.pc = "cleanup", !.exc = exc, !.failed = proc.pc]

MayHit(fail) == fail => nfaults < MaxFaults

\* repo.save(todo) is called
Call(p, todo) ==
    /\ procs[p].pc = "idle"
    /\ Step(p, Cur, [IdleProc EXCEPT !.pc = "load", !.op = "save", !.todo = todo, !.pre = file],
            FALSE)

\* todos = self._load_all_todos(); todos[todo.id] = ...
Load(p, fail) ==
    /\ procs[p].pc = "load" /\ MayHit(fail)
    /\ LET f == IF fail THEN "read" ELSE "none"
           l == IF fmt = "json" THEN _load_all_todos(Cur, f) ELSE _load_xml_root(Cur, f)
       IN  /\ fail => l.fired = "read"
           /\ IF l.err # "none"
              THEN Step(p, Cur, Returns(p, "RepositoryError", file), fail)
              ELSE Step(p, Cur, [procs[p] EXCEPT !.pc = "exists",
                                                 !.content = DocWith(fmt, l.todos, procs[p].todo)],
                        FALSE)

\* if self.file_path.exists():
CheckExists(p) ==
    /\ procs[p].pc = "exists"
    /\ Step(p, Cur, [procs[p] EXCEPT !.pc = IF file.exists THEN "backup" ELSE "open_tmp"], FALSE)

\* FileHandler.create_backup(self.file_path)
Backup(p, fail) ==
    /\ procs[p].pc = "backup" /\ MayHit(fail)
    /\ LET r == create_backup(Cur, now, IF fail THEN "copy" ELSE "none")
       IN  /\ fail => r.fired = "copy"
           /\ IF r.err # "none"
              THEN Step(p, Cur, Returns(p, "RepositoryError", file), fail)
              ELSE Step(p, r.fs, [procs[p] EXCEPT !.pc = "open_tmp"], FALSE)

\* temp_path.write_text(content): the file is opened ...
OpenTmp(p, fail) ==
    /\ procs[p].pc = "open_tmp" /\ MayHit(fail)
    /\ IF fail THEN Step(p, Cur, Raised(procs[p], "OSError"), TRUE)
       ELSE Step(p, OpenForWrite(Cur), [procs[p] EXCEPT !.pc = "write_tmp"], FALSE)

\* ... and written
WriteTmp(p, fail) ==
    /\ procs[p].pc = "write_tmp" /\ MayHit(fail)
    /\ IF fail THEN Step(p, Cur, Raised(procs[p], "OSError"), TRUE)
       ELSE Step(p, [Cur EXCEPT !.tmp = procs[p].content],
                 [procs[p] EXCEPT !.pc = "unlink"], FALSE)

\* temp_path.write_text(content) as one step
WriteText(p) ==
    /\ procs[p].pc = "open_tmp"
    /\ Step(p, [OpenForWrite(Cur) EXCEPT !.tmp = procs[p].content],
            [procs[p] EXCEPT !.pc = "unlink"], FALSE)

\* if os.name == "nt": if file_path.exists(): file_path.unlink()
Unlink(p, fail) ==
    /\ procs[p].pc = "unlink" /\ MayHit(fail)
    /\ IF os_name = "nt" /\ file.exists
       THEN IF fail THEN Step(p, Cur, Raised(procs[p], "OSError"), TRUE)
            ELSE Step(p, [Cur EXCEPT !.file = Absent],
                      [procs[p] EXCEPT !.pc = "replace", !.changed = TRUE], FALSE)
       ELSE ~fail /\ Step(p, Cur, [procs[p] EXCEPT !.pc = "replace"], FALSE)

\* temp_path.replace(file_path)
Replace(p, fail) ==
    /\ procs[p].pc = "replace" /\ MayHit(fail)
    /\ IF fail THEN Step(p, Cur, Raised(procs[p], "OSError"), TRUE)
       ELSE IF ~tmp.exists
       THEN Step(p, Cur, Raised(procs[p], "FileNotFoundError"), FALSE)
       ELSE Step(p, ReplaceOnto(Cur),
                 [Returns(p, "none", ReplaceOnto(Cur).file) EXCEPT !.changed = TRUE], FALSE)

\* except Exception: remove the temporary file; raise -- and the except
\* clauses of _save_all_todos / _save_xml_root and save() wrap what arrives
Cleanup(p) ==
    /\ procs[p].pc = "cleanup"
    /\ Step(p, IF tmp.exists THEN CleanUp(Cur) ELSE Cur,
            Returns(p, Wrap(procs[p].exc), file), FALSE)

\* The process is killed between two statements
Crash(p) ==
    /\ InFlight(procs[p].pc)
    /\ Step(p, Cur, [procs[p] EXCEPT !.pc = "crashed"], FALSE)

\* A constructed store; a temporary file may be left from a killed process
InitSteps ==
    /\ fmt \in {"json", "xml"}
    /\ os_name \in {"posix", "nt"}
    /\ constructed = TRUE
    /\ dir = TRUE
    /\ file \in StepDocs(fmt)
    /\ tmp \in {Absent, Partial}
    /\ backups = [s \in Seconds |-> Absent]
    /\ now = 0
    /\ nops = 0
    /\ last = NoLast
    /\ saved = {}
    /\ nfaults = 0
    /\ procs = [p \in Procs |-> IdleProc]
    /\ ent = NoEnt
    /\ twin = NoTwin

\* One caller
NextOne ==
    \/ \E todo \in {BuyMilk, Second} : Call(1, todo)
    \/ \E fail \in BOOLEAN : Load(1, fail)
    \/ CheckExists(1)
    \/ \E fail \in BOOLEAN : Backup(1, fail)
    \/ \E fail \in BOOLEAN : OpenTmp(1, fail)
    \/ \E fail \in BOOLEAN : WriteTmp(1, fail)
    \/ \E fail \in BOOLEAN : Unlink(1, fail)
    \/ \E fail \in BOOLEAN : Replace(1, fail)
    \/ Cleanup(1)
    \/ Crash(1)

SpecOne == InitSteps /\ [][NextOne]_vars

\* C15: when FileHandler.safe_write fails, in writing the temporary file or
\* in the replace (or, on nt, in the unlink before it), the temporary file
\* does not exist when the call has returned, and the caller has the
\* exception: the OSError leaves safe_write and reaches the caller of save
\* as RepositoryError.
C15_TempFileCleanedUp ==
    \A p \in Procs :
        /\ (procs[p].pc = "done" /\ procs[p].exc # "none") =>
              /\ ~tmp.exists
              /\ procs[p].err = "RepositoryError"
        /\ (procs[p].pc = "done" /\ procs[p].err = "none") =>
              procs[p].exc = "none" /\ file = procs[p].content

\* C15 witness: the replace failed when the temporary file was written
C15_Witness ==
    /\ procs[1].pc = "done" /\ procs[1].failed = "replace" /\ procs[1].exc = "OSError"
    /\ ~tmp.exists /\ procs[1].err = "RepositoryError"

\* C18: where the rename replaces atomically (os.name is not "nt"), from the
\* moment save is called to its return or to the death of the process, the
\* target is what it was when the call began (same text, or absent) or is
\* exactly the new text; it is never a file written in part, and neither is
\* a backup: only the temporary file is.
C18_TargetOldOrNew ==
    os_name # "nt" =>
        \A p \in Procs :
            procs[p].pc # "idle" =>
                /\ file = procs[p].pre \/ (procs[p].content.exists /\ file = procs[p].content)
                /\ file.kind # "partial"
                /\ \A sec \in Seconds : backups[sec].kind # "partial"

\* C18 witness: the process died while the temporary file was written in
\* part; the target is the old document
C18_Witness ==
    /\ os_name = "posix" /\ procs[1].pc = "crashed"
    /\ tmp = Partial /\ procs[1].content.exists
    /\ file = procs[1].pre /\ file.exists /\ file # procs[1].content

-----------------------------------------------------------------------------
\* RepositoryFactory

\* Mutant: a format that is not known gets the JSON store
create_repository_Default(format_type) ==
    IF format_type = "xml"
    THEN [err |-> "none", cls |-> "xml", path |-> "todos.xml", msg |-> "", value |-> ""]
    ELSE [err |-> "none", cls |-> "json", path |-> "todos.json", msg |-> "", value |-> ""]

\* RepositoryFactory.create_repository up to the constructor call:
\* the class, the file name under data_dir, or the ValueError
create_repository(format_type) ==
    IF format_type = "json"
    THEN [err |-> "none", cls |-> "json", path |-> "todos.json", msg |-> "", value |-> ""]
    ELSE IF format_type = "xml"
    THEN [err |-> "none", cls |-> "xml", path |-> "todos.xml", msg |-> "", value |-> ""]
    ELSE [err |-> "ValueError", cls |-> "none", path |-> "",
          msg |-> "Unsupported storage format: ", value |-> format_type]

get_supported_formats == <<"json", "xml">>

\* What a caller may pass for format_type
FormatValues == {"json", "xml", "yaml", "JSON", ""}

\* No repository yet
InitFactory ==
    /\ fmt = "none"
    /\ os_name = "posix"
    /\ constructed = FALSE
    /\ dir \in BOOLEAN
    /\ file = Absent
    /\ tmp = Absent
    /\ backups = [s \in Seconds |-> Absent]
    /\ now = 0
    /\ nops = 0
    /\ last = NoLast
    /\ saved = {}
    /\ nfaults = 0
    /\ procs = [p \in Procs |-> IdleProc]
    /\ ent = NoEnt
    /\ twin = NoTwin

\* RepositoryFactory.create_repository(format_type, data_dir)
Create(format_type) ==
    /\ ~constructed
    /\ LET c == create_repository(format_type) IN
       IF c.err # "none"
       THEN /\ last' = [NoLast EXCEPT !.op = "create", !.id = format_type, !.err = c.err,
                                      !.pre = Cur, !.preDir = dir, !.at = now]
            /\ UNCHANGED <<fmt, constructed, dir, file, tmp, backups>>
       ELSE \E r \in (IF c.cls = "json" THEN Json_init(Cur, "none")
                      ELSE Xml_init(Cur, now, os_name, "none")) :
               /\ fmt' = c.cls
               /\ constructed' = TRUE
               /\ dir' = TRUE
               /\ file' = r.fs.file
               /\ tmp' = r.fs.tmp
               /\ backups' = r.fs.backups
               /\ last' = [NoLast EXCEPT !.op = "create", !.id = format_type, !.err = r.err,
                                         !.pre = Cur, !.preDir = dir, !.at = now]
    /\ UNCHANGED <<os_name, now, nops, saved, nfaults, procs, ent, twin>>

NextFactory ==
    \/ \E format_type \in FormatValues : Create(format_type)
    \/ \E todo \in Todos : Save(todo, "none")
    \/ \E todo_id \in Ids : Delete(todo_id, "none")

SpecFactory == InitFactory /\ [][NextFactory]_vars

\* C16: create_repository gives the JSON store on todos.json for "json" and
\* the XML store on todos.xml for "xml"; any other value raises the error
\* "Unsupported storage format: <value>" and leaves the directory as it was;
\* get_supported_formats lists json and xml, exactly the accepted values.
C16_FactoryFormats ==
    /\ \A f \in FormatValues :
          LET c == create_repository(f) IN
          /\ f = "json" => c.err = "none" /\ c.cls = "json" /\ c.path = "todos.json"
          /\ f = "xml" => c.err = "none" /\ c.cls = "xml" /\ c.path = "todos.xml"
          /\ f \notin {"json", "xml"} =>
                c.err = "ValueError" /\ c.msg = "Unsupported storage format: " /\ c.value = f
    /\ ToSet(get_supported_formats) = {"json", "xml"}
    /\ ToSet(get_supported_formats) = {f \in FormatValues : create_repository(f).err = "none"}
    /\ (last.op = "create" /\ last.err # "none") =>
          /\ last.id \notin {"json", "xml"}
          /\ Cur = last.pre /\ dir = last.preDir /\ ~constructed /\ ~file.exists
    /\ (last.op = "create" /\ last.err = "none") =>
          /\ last.id \in {"json", "xml"} /\ fmt = last.id
          /\ constructed /\ dir /\ file = Text(fmt, <<>>)

\* C16 witness: "JSON" is refused and nothing was created
C16_Witness ==
    /\ last.op = "create" /\ last.id = "JSON" /\ last.err = "ValueError"
    /\ ~file.exists /\ ~dir /\ ~constructed

-----------------------------------------------------------------------------
\* Two callers of save() on the same document file.  write_text is taken as
\* one step here: what two writers of one open file leave behind is not
\* modelled.  Both callers use the same temporary file name.

InitTwo == InitSteps /\ os_name = "posix" /\ tmp = Absent /\ file.exists

NextTwo ==
    \E p \in Procs :
        \/ \E todo \in {BuyMilk, Second} : Call(p, todo)
        \/ Load(p, FALSE)
        \/ CheckExists(p)
        \/ Backup(p, FALSE)
        \/ WriteText(p)
        \/ Unlink(p, FALSE)
        \/ Replace(p, FALSE)
        \/ Cleanup(p)

SpecTwo == InitTwo /\ [][NextTwo]_vars

BothReturned == \A p \in Procs : procs[p].pc = "done" /\ procs[p].err = "none"

\* C17: nothing orders two save calls on the same file and nothing merges
\* what they write: when both have returned successfully the document is the
\* text one of them wrote, whole, so it holds the record of the other only
\* if that text was computed from a document that already held it.
C17_LastWriteWins ==
    BothReturned =>
        /\ \E p \in Procs : file = procs[p].content
        /\ \A p \in Procs : WithId(file, procs[p].todo.id) # {} =>
              \E q \in Procs : /\ file = procs[q].content
                               /\ WithId(procs[q].content, procs[p].todo.id) # {}

\* C17 witness: two saves of different ids both returned successfully and
\* the document holds one of the two records
C17_Witness ==
    /\ BothReturned
    /\ procs[1].todo.id # procs[2].todo.id
    /\ Len(file.recs) = 1
    /\ Cardinality({p \in Procs : WithId(file, procs[p].todo.id) # {}}) = 1

-----------------------------------------------------------------------------
\* A Todo object in the hands of a caller: constructed once, then changed
\* through its methods.  ent is
\*   made, ok   Todo(...) was called / returned an object
\*   todo       the object
\*   born       the object as the constructor returned it
\*   nmut       the number of mutating calls made on it
\*   at         datetime.now() of the last of them

Long(n) == [k \in 1..n |-> "m"]

NewTitles == {<<"m">>, <<WS, "m", WS>>, <<WS>>, <<>>, Long(MaxTitleLen), Long(MaxTitleLen + 1)}
SetTitles == {<<"n">>, <<WS>>, Long(MaxTitleLen + 1)}
Descriptions == {None, Some(<<>>), Some(<<"d">>)}
Micros == {0, 5}

\* todo = Todo(title=..., description=...)
New(title, description, micro) ==
    /\ ~ent.ok
    /\ LET r == TodoInit("id1", Some(title), description, FALSE, "medium", <<now, micro>>, None)
       IN  ent' = [made |-> TRUE, ok |-> r.ok, todo |-> r.todo, born |-> r.todo,
                   nmut |-> 0, at |-> <<0, 0>>]
    /\ UNCHANGED <<fmt, os_name, constructed, dir, file, tmp, backups, now, nops, last, saved,
                   nfaults, procs, twin>>

\* The object after one of its methods has run at time clock
Mutated(todo, clock) ==
    /\ ent.ok /\ ent.nmut < MaxOps
    /\ ent' = [ent EXCEPT !.todo = todo, !.nmut = ent.nmut + 1, !.at = clock]
    /\ UNCHANGED <<fmt, os_name, constructed, dir, file, tmp, backups, now, nops, last, saved,
                   nfaults, procs, twin>>

MarkCompleted(micro) == Mutated(mark_completed(ent.todo, <<now, micro>>), <<now, micro>>)

MarkIncomplete(micro) == Mutated(mark_incomplete(ent.todo, <<now, micro>>), <<now, micro>>)

UpdateTitle(new_title, micro) ==
    Mutated(update_title(ent.todo, new_title, <<now, micro>>), <<now, micro>>)

UpdateDescription(new_description, micro) ==
    Mutated(update_description(ent.todo, new_description, <<now, micro>>), <<now, micro>>)

UpdatePriority(new_priority, micro) ==
    Mutated(update_priority(ent.todo, new_priority, <<now, micro>>), <<now, micro>>)

\* The wall clock reaches the next second
TickTodo ==
    /\ now < MaxClock
    /\ now' = now + 1
    /\ UNCHANGED <<fmt, os_name, constructed, dir, file, tmp, backups, nops, last, saved,
                   nfaults, procs, ent, twin>>

InitTodo == InitFactory /\ dir = FALSE

NextTodo ==
    \/ \E title \in NewTitles, description \in Descriptions, micro \in Micros :
          New(title, description, micro)
    \/ \E micro \in Micros : MarkCompleted(micro)
    \/ \E micro \in Micros : MarkIncomplete(micro)
    \/ \E new_title \in SetTitles, micro \in Micros : UpdateTitle(new_title, micro)
    \/ \E new_description \in Descriptions, micro \in Micros :
          UpdateDescription(new_description, micro)
    \/ \E new_priority \in Priority, micro \in Micros : UpdatePriority(new_priority, micro)
    \/ TickTodo

SpecTodo == InitTodo /\ [][NextTodo]_vars

\* C19: the title of a Todo is never empty or all whitespace and never longer
\* than 200 characters, after construction and after any calls of
\* update_title.
C19_TitleInvariant ==
    ent.ok =>
        /\ Len(strip(ent.todo.title)) > 0
        /\ Len(ent.todo.title) <= MaxTitleLen

\* C20: updated_at is None from construction until the first mutating call,
\* and after each call of mark_completed, mark_incomplete, update_title,
\* update_description or update_priority it is the time of that call; id
\* and created_at stay what the constructor made them.
C20_Timestamps ==
    ent.ok =>
        /\ ent.nmut = 0 => IsNone(ent.todo.updated_at)
        /\ ent.nmut > 0 => ent.todo.updated_at = Some(ent.at)
        /\ ent.todo.id = ent.born.id
        /\ ent.todo.created_at = ent.born.created_at

\* C20 witness: two mutating calls, the later in a later second than the
\* construction
C20_Witness ==
    /\ ent.ok /\ ent.nmut = 2
    /\ ~IsNone(ent.todo.updated_at)
    /\ Val(ent.todo.updated_at)[1] > ent.todo.created_at[1]
    /\ ent.todo.created_at = ent.born.created_at

-----------------------------------------------------------------------------
\* Backup retention: a long run of writes, one clock second after another

\* One second more than max_backups backups need
ManySeconds == 0..max_backups

\* A constructed store on an empty document, with room for max_backups + 1
\* backup names
InitKeep ==
    /\ fmt \in {"json", "xml"}
    /\ os_name = "posix"
    /\ constructed = TRUE
    /\ dir = TRUE
    /\ file = Text(fmt, <<>>)
    /\ tmp = Absent
    /\ backups = [s \in ManySeconds |-> Absent]
    /\ now = 0
    /\ nops = 0
    /\ last = NoLast
    /\ saved = {}
    /\ nfaults = 0
    /\ procs = [p \in Procs |-> IdleProc]
    /\ ent = NoEnt
    /\ twin = NoTwin

\* A call of save, update or delete with result r, in a run of any length
Keep(opname, todo_id, r) ==
    /\ file' = r.fs.file
    /\ tmp' = r.fs.tmp
    /\ backups' = r.fs.backups
    /\ last' = [NoLast EXCEPT !.op = opname, !.id = todo_id, !.err = r.err, !.at = now]
    /\ UNCHANGED <<fmt, os_name, constructed, dir, now, nops, saved, nfaults, procs, ent, twin>>

KeepSave(todo) == Keep("save", todo.id, save(fmt, Cur, todo, now, os_name, "none"))

KeepUpdate(todo) == Keep("update", todo.id, update(fmt, Cur, todo, now, os_name, "none"))

KeepDelete(todo_id) == Keep("delete", todo_id, delete(fmt, Cur, todo_id, now, os_name, "none"))

KeepTick ==
    /\ now < max_backups
    /\ now' = now + 1
    /\ UNCHANGED <<fmt, os_name, constructed, dir, file, tmp, backups, nops, last, saved,
                   nfaults, procs, ent, twin>>

NextKeep ==
    \/ KeepSave(BuyMilk)
    \/ KeepUpdate(Edited)
    \/ KeepDelete(BuyMilk.id)
    \/ KeepTick

SpecKeep == InitKeep /\ [][NextKeep]_vars

\* The backup files on disk
BackupNames == {s \in DOMAIN backups : backups[s].exists}

\* C21: no call of save, update or delete removes a backup file: a backup
\* name that exists before a step exists after it, however many there are
C21_NoPruning ==
    [][\A s \in DOMAIN backups : backups[s].exists => backups'[s].exists]_vars

\* More backup files than max_backups, after a save, an update and a delete
C21_Witness ==
    /\ Cardinality(BackupNames) > max_backups
    /\ \E s \in BackupNames : WithId(backups[s], "id1") = {}
    /\ \E s \in BackupNames : Encoded(Edited) \in ToSet(backups[s].recs)
    /\ IsWrite(last.op) /\ last.err = "none"

-----------------------------------------------------------------------------
\* Backups within one second

\* The call recorded in last copied the document to a backup name that
\* an earlier call of the same second had used
SameSecondBackup ==
    /\ IsWrite(last.op) /\ last.sw.called
    /\ last.pre.file.exists
    /\ last.pre.backups[last.at].exists

\* C22: the backup name is determined by the second: a write in a second
\* that already has a backup overwrites that backup with the document as it
\* was before this write, and touches no other backup
C22_SameSecondOverwrites ==
    SameSecondBackup =>
        /\ backups[last.at] = last.pre.file
        /\ \A s \in Seconds \ {last.at} : backups[s] = last.pre.backups[s]
        /\ NumBackups = Cardinality({s \in Seconds : last.pre.backups[s].exists})

\* Two writes in one second: the backup of the first is gone, the content
\* that preceded the second is the only backup
C22_Witness ==
    /\ SameSecondBackup /\ last.err = "none"
    /\ last.pre.backups[last.at] # last.pre.file
    /\ backups[last.at] = last.pre.file
    /\ NumBackups = 1

-----------------------------------------------------------------------------
\* The records a call is not about

\* The records of a document other than those with the id, in document order
Other(f, todo_id) == SelectSeq(f.recs, LAMBDA rec : ~RecHasId(rec, todo_id))

\* C23: a successful save, update or delete leaves every record with
\* another id in the document, with the same fields and in the same order,
\* and adds no record with another id
C23_OtherRecordsKept ==
    (IsWrite(last.op) /\ last.err = "none") =>
        Other(file, last.id) = Other(last.pre.file, last.id)

\* A call that rewrote a document holding a record with another id
C23_Witness ==
    /\ IsWrite(last.op) /\ last.err = "none" /\ Rewrote
    /\ file # last.pre.file
    /\ Other(last.pre.file, last.id) # <<>>
    /\ WithId(last.pre.file, last.id) # {}

-----------------------------------------------------------------------------
\* Calls that write nothing

\* The call recorded in last was a delete or an update of an id that the
\* document did not hold
AbsentId ==
    /\ last.op \in {"delete", "update"}
    /\ WithId(last.pre.file, last.id) = {}

\* C24: find_by_id, find_all, exists and count, whether they return or
\* raise, and delete and update of an id that is not stored, leave the
\* document, the temporary file and the backups as they were
C24_ReadsLeaveDisk ==
    /\ constructed =>
          \A fault \in ReadFaults :
             /\ find_all(fmt, Cur, fault).fs = Cur
             /\ count(fmt, Cur, fault).fs = Cur
             /\ \A todo_id \in Ids :
                   /\ find_by_id(fmt, Cur, todo_id, fault).fs = Cur
                   /\ exists(fmt, Cur, todo_id, fault).fs = Cur
    /\ AbsentId => Cur = last.pre /\ ~last.sw.called

\* update of an id that is not stored, on a document holding another record
C24_Witness ==
    /\ AbsentId /\ last.op = "update" /\ last.err = "TodoNotFoundError"
    /\ file.exists /\ file.recs # <<>>
    /\ Cur = last.pre
    /\ find_all(fmt, Cur, "none").retTodos # <<>>

-----------------------------------------------------------------------------
\* Reading back what was written

\* C25: after a successful save or update of a task, whatever Todo methods
\* were called on it before, find_by_id of its id and find_all succeed
C25_WrittenIsReadable ==
    (last.op \in {"save", "update"} /\ last.err = "none") =>
        /\ find_by_id(fmt, Cur, last.id, "none").err = "none"
        /\ find_all(fmt, Cur, "none").err = "none"

-----------------------------------------------------------------------------
\* The three writes, with shutil.copy2 succeeding or raising in any of them

CopyFaults == {"none", "copy"}

NextCopy ==
    \/ Construct("none")
    \/ \E todo \in {BuyMilk, Second}, fault \in CopyFaults : Save(todo, fault)
    \/ \E fault \in CopyFaults : Update(Edited, fault)
    \/ \E todo_id \in Ids, fault \in CopyFaults : Delete(todo_id, fault)
    \/ Tick

SpecCopy == Init /\ [][NextCopy]_vars

\* C26: when the backup copy fails in save, update or delete, the call
\* raises RepositoryError, safe_write is not called and the document and
\* the temporary file are as before the call
C26_FailedBackupAborts ==
    (IsWrite(last.op) /\ last.fired = "copy") =>
        /\ last.err = "RepositoryError"
        /\ ~last.sw.called
        /\ file = last.pre.file
        /\ tmp = last.pre.tmp

\* A delete of a stored record whose backup failed: the record is still there
C26_Witness ==
    /\ last.op = "delete" /\ last.fired = "copy"
    /\ WithId(last.pre.file, last.id) # {}
    /\ file = last.pre.file /\ WithId(file, last.id) # {}

-----------------------------------------------------------------------------
\* update() and delete() statement by statement, one caller each, on a
\* document that holds the record.  update() is exists() followed by save();
\* delete() is a load followed, when the id is found, by the same write.

\* The text delete() hands to _save_all_todos / _save_xml_root
DocWithout(f, todos, todo_id) ==
    IF f = "json" THEN json_dumps(DictDel(todos, todo_id))
    ELSE ET_tostring([k \in 1..(Len(todos) - 1) |->
                         IF k < First(Hits(todos, todo_id)) THEN todos[k] ELSE todos[k + 1]])

\* repo.update(todo) is called
CallUpdate(p, todo) ==
    /\ procs[p].pc = "idle"
    /\ Step(p, Cur, [IdleProc EXCEPT !.pc = "check", !.op = "update", !.todo = todo,
                                     !.pre = file], FALSE)

\* if not self.exists(todo.id): raise TodoNotFoundError(todo.id)
CheckStored(p) ==
    /\ procs[p].pc = "check"
    /\ LET e == exists(fmt, Cur, procs[p].todo.id, "none")
           seen == {q \in Procs \ {p} : procs[q].pc = "done"}
       IN  IF e.err # "none"
           THEN Step(p, Cur, [Returns(p, e.err, file) EXCEPT !.checked = seen], FALSE)
           ELSE IF ~e.retBool
           THEN Step(p, Cur, [Returns(p, "TodoNotFoundError", file) EXCEPT !.checked = seen],
                     FALSE)
           ELSE Step(p, Cur, [procs[p] EXCEPT !.pc = "load", !.checked = seen], FALSE)

\* repo.delete(todo_id) is called
CallDelete(p, todo_id) ==
    /\ procs[p].pc = "idle"
    /\ Step(p, Cur, [IdleProc EXCEPT !.pc = "load_del", !.op = "delete",
                                     !.todo = [NoTodo EXCEPT !.id = todo_id],
                                     !.pre = file], FALSE)

\* todos = self._load_all_todos(); if todo_id not in todos: return False;
\* del todos[todo_id]
LoadDel(p) ==
    /\ procs[p].pc = "load_del"
    /\ LET l == IF fmt = "json" THEN _load_all_todos(Cur, "none")
                ELSE _load_xml_root(Cur, "none")
           todo_id == procs[p].todo.id
           found == IF fmt = "json" THEN DictHas(l.todos, todo_id)
                    ELSE Hits(l.todos, todo_id) # {}
       IN  IF l.err # "none" THEN Step(p, Cur, Returns(p, "RepositoryError", file), FALSE)
           ELSE IF ~found THEN Step(p, Cur, Returns(p, "none", file), FALSE)
           ELSE Step(p, Cur, [procs[p] EXCEPT !.pc = "exists", !.ret = TRUE,
                                              !.content = DocWithout(fmt, l.todos, todo_id)],
                     FALSE)

\* The documents that hold the task, alone or after another one
RaceDocs(f) == {DocWith(f, d.recs, BuyMilk) : d \in StepDocs(f) \ {Absent}}

InitRace ==
    /\ fmt \in {"json", "xml"}
    /\ os_name = "posix"
    /\ constructed = TRUE
    /\ dir = TRUE
    /\ file \in RaceDocs(fmt)
    /\ tmp = Absent
    /\ backups = [s \in Seconds |-> Absent]
    /\ now = 0
    /\ nops = 0
    /\ last = NoLast
    /\ saved = {}
    /\ nfaults = 0
    /\ procs = [p \in Procs |-> IdleProc]
    /\ ent = NoEnt
    /\ twin = NoTwin

\* Caller 1 updates the task, caller 2 deletes it
NextRace ==
    \/ CallUpdate(1, Edited)
    \/ CheckStored(1)
    \/ Load(1, FALSE)
    \/ CallDelete(2, Edited.id)
    \/ LoadDel(2)
    \/ \E p \in Procs :
          \/ CheckExists(p)
          \/ Backup(p, FALSE)
          \/ WriteText(p)
          \/ Unlink(p, FALSE)
          \/ Replace(p, FALSE)
          \/ Cleanup(p)

SpecRace == InitRace /\ [][NextRace]_vars

\* The delete of caller q has returned True
Deleted(q) ==
    /\ procs[q].op = "delete" /\ procs[q].pc = "done"
    /\ procs[q].err = "none" /\ procs[q].ret

-----------------------------------------------------------------------------
\* Two callers of FileHandler.safe_write on one target, on posix: both use
\* the temporary file of the same name.  write_text is an open, which
\* creates or truncates the file, and a write through the open file; the
\* open file stays the same file when another caller renames it.

\* A file written through two open files at once: the later text, followed
\* by what is left of a longer earlier one
Mixed == Text("mixed", <<>>)

\* The texts the callers are given
SwTexts(f) == {DocWith(f, <<>>, BuyMilk), DocWith(f, <<>>, Second)}

\* The caller has opened the temporary file and not yet renamed it
InUse(pc) == pc \in {"write_tmp", "unlink", "replace"}

\* FileHandler.safe_write(file_path, content) is called
CallSafeWrite(p, content) ==
    /\ procs[p].pc = "idle"
    /\ Step(p, Cur, [IdleProc EXCEPT !.pc = "open_tmp", !.op = "safe_write",
                                     !.content = content, !.pre = file], FALSE)

\* temp_path.write_text(content): open() creates the temporary file or
\* truncates the one that is there, another caller's included
OpenShared(p) ==
    /\ procs[p].pc = "open_tmp"
    /\ LET users == {q \in Procs \ {p} : InUse(procs[q].pc)}
       IN  procs' = [q \in Procs |->
                        IF q = p THEN [procs[p] EXCEPT !.pc = "write_tmp", !.lost = users # {}]
                        ELSE IF q \in users THEN [procs[q] EXCEPT !.lost = TRUE]
                        ELSE procs[q]]
    /\ tmp' = OpenForWrite(Cur).tmp
    /\ UNCHANGED <<fmt, os_name, constructed, dir, file, backups, now, nops, last, saved,
                   nfaults, ent, twin>>

\* What a write of content from the start of a file holding f leaves
Overwritten(f, content) ==
    IF f = Partial \/ f = content THEN {content} ELSE {content, Mixed}

\* ... the text is written through the open file: to the temporary file, or
\* to the target when another caller has renamed the open file onto it
WriteOpen(p) ==
    /\ procs[p].pc = "write_tmp"
    /\ IF tmp.exists
       THEN \E text \in Overwritten(tmp, procs[p].content) :
               Step(p, [Cur EXCEPT !.tmp = text], [procs[p] EXCEPT !.pc = "unlink"], FALSE)
       ELSE \E text \in Overwritten(file, procs[p].content) :
               Step(p, [Cur EXCEPT !.file = text],
                    [procs[p] EXCEPT !.pc = "unlink", !.changed = TRUE], FALSE)

InitShare ==
    /\ fmt \in {"json", "xml"}
    /\ os_name = "posix"
    /\ constructed = TRUE
    /\ dir = TRUE
    /\ file \in StepDocs(fmt) \ {Absent}
    /\ tmp = Absent
    /\ backups = [s \in Seconds |-> Absent]
    /\ now = 0
    /\ nops = 0
    /\ last = NoLast
    /\ saved = {}
    /\ nfaults = 0
    /\ procs = [p \in Procs |-> IdleProc]
    /\ ent = NoEnt
    /\ twin = NoTwin

NextShare ==
    \E p \in Procs :
        \/ \E content \in SwTexts(fmt) : CallSafeWrite(p, content)
        \/ OpenShared(p)
        \/ WriteOpen(p)
        \/ Unlink(p, FALSE)
        \/ Replace(p, FALSE)
        \/ Cleanup(p)

SpecShare == InitShare /\ [][NextShare]_vars

\* C28: in every interleaving of two safe_write calls on one target, a call
\* that has returned without error left the target holding exactly its
\* content when it returned, and a call that raised has not changed the target
C28_SharedTempIsSafe ==
    \A p \in Procs :
        procs[p].pc = "done" =>
            /\ procs[p].exc = "none" => procs[p].left = procs[p].content
            /\ procs[p].exc # "none" => ~procs[p].changed

\* C28 as amended: a call during which no other caller had the temporary
\* file in use returned without error and left the target holding exactly
\* its content; a call that raised had its replace fail on the missing
\* temporary file and renamed nothing onto the target
C28_ApartIsSafe ==
    \A p \in Procs :
        procs[p].pc = "done" =>
            /\ ~procs[p].lost =>
                  /\ procs[p].exc = "none"
                  /\ procs[p].left = procs[p].content
                  /\ procs[p].changed
            /\ procs[p].exc # "none" =>
                  /\ procs[p].lost
                  /\ procs[p].exc = "FileNotFoundError" /\ procs[p].failed = "replace"
                  /\ \A q \in Procs \ {p} : procs[q].pc = "done" /\ procs[q].exc = "none"

\* Both calls have returned, one after the other, each leaving its own text
C28_Witness ==
    /\ \A p \in Procs : procs[p].pc = "done" /\ ~procs[p].lost /\ procs[p].exc = "none"
    /\ procs[1].content # procs[2].content
    /\ procs[1].left = procs[1].content /\ procs[2].left = procs[2].content
    /\ 1 \in procs[2].after /\ file = procs[2].content

-----------------------------------------------------------------------------
\* A JSON store and an XML store given the same calls.  file, tmp and
\* backups are the files of the JSON store, twin those of the XML store.

InitPair ==
    /\ fmt = "json"
    /\ os_name \in {"posix", "nt"}
    /\ constructed = TRUE
    /\ dir = TRUE
    /\ file = Text("json", <<>>)
    /\ tmp = Absent
    /\ backups = [s \in Seconds |-> Absent]
    /\ now = 0
    /\ nops = 0
    /\ last = NoLast
    /\ saved = {}
    /\ nfaults = 0
    /\ procs = [p \in Procs |-> IdleProc]
    /\ ent = NoEnt
    /\ twin = FS(Text("xml", <<>>), Absent, [s \in Seconds |-> Absent])

\* The same call on both stores, with results rj and rx
Both(opname, todo_id, todo, rj, rx) ==
    /\ nops < MaxOps
    /\ Commit(opname, todo_id, todo, rj)
    /\ twin' = rx.fs
    /\ nops' = nops + 1
    /\ UNCHANGED <<fmt, os_name, constructed, dir, now, saved, procs, ent>>

SaveBoth(todo) ==
    Both("save", todo.id, <<todo>>,
         save("json", Cur, todo, now, os_name, "none"),
         save("xml", twin, todo, now, os_name, "none"))

UpdateBoth(todo) ==
    Both("update", todo.id, <<todo>>,
         update("json", Cur, todo, now, os_name, "none"),
         update("xml", twin, todo, now, os_name, "none"))

DeleteBoth(todo_id) ==
    Both("delete", todo_id, <<>>,
         delete("json", Cur, todo_id, now, os_name, "none"),
         delete("xml", twin, todo_id, now, os_name, "none"))

\* The tasks given to both stores: two new ones and a changed one
PairTodos == {BuyMilk, Second, mark_completed(BuyMilk, <<2, 5>>)}

NextPair ==
    \/ \E todo \in PairTodos : SaveBoth(todo)
    \/ \E todo \in PairTodos : UpdateBoth(todo)
    \/ \E todo_id \in Ids : DeleteBoth(todo_id)

SpecPair == InitPair /\ [][NextPair]_vars

\* What the caller of a read gets: the exception, if any, and the value
Got(r) == <<r.err, r.retBool, r.retInt, r.retTodos>>

\* C29: after every step of the same calls on a JSON store and an XML
\* store, count, exists and find_by_id give the same result on both, and
\* find_all gives the same tasks in the same order
C29_Interchangeable ==
    /\ Got(count("json", Cur, "none")) = Got(count("xml", twin, "none"))
    /\ \A todo_id \in Ids :
          /\ Got(exists("json", Cur, todo_id, "none")) = Got(exists("xml", twin, todo_id, "none"))
          /\ Got(find_by_id("json", Cur, todo_id, "none"))
                = Got(find_by_id("xml", twin, todo_id, "none"))
    /\ Got(find_all("json", Cur, "none")) = Got(find_all("xml", twin, "none"))

-----------------------------------------------------------------------------
\* The application layer: TodoService.update_todo and
\* UpdateTodoUseCase.execute, which have the same body, over a store

\* UpdateTodoDto(title, description, priority, completed) : [ok, dto]
\* Every field is None or a value; the validators reject a blank title and
\* an unknown priority and strip the title.
UpdateTodoDto(title, description, priority, completed) ==
    IF /\ ~IsNone(title) =>
             /\ Len(Val(title)) >= 1 /\ Len(Val(title)) <= MaxTitleLen
             /\ strip(Val(title)) # <<>>
       /\ ~IsNone(description) => Len(Val(description)) <= MaxDescLen
       /\ ~IsNone(priority) => Val(priority) \in Priority
    THEN [ok |-> TRUE,
          dto |-> [title |-> IF IsNone(title) THEN None ELSE Some(strip(Val(title))),
                   description |-> description, priority |-> priority,
                   completed |-> completed]]
    ELSE [ok |-> FALSE,
          dto |-> [title |-> None, description |-> None, priority |-> None,
                   completed |-> None]]

\* update_todo(todo_id, dto) / execute(todo_id, dto); retTodos is the task
\* the response is built from
update_todo(f, fs, todo_id, dto, clock, osname) ==
    LET r == find_by_id(f, fs, todo_id, "none") IN
    IF r.err # "none" THEN r
    ELSE IF r.retTodos = <<>>
    THEN R("TodoNotFoundError", fs, "none", NoCall, FALSE, 0, <<>>)
    ELSE LET t0 == r.retTodos[1]
             t1 == IF IsNone(dto.title) THEN t0 ELSE update_title(t0, Val(dto.title), clock)
             t2 == IF IsNone(dto.description) THEN t1
                   ELSE update_description(t1, dto.description, clock)
             t3 == IF IsNone(dto.priority) THEN t2
                   ELSE update_priority(t2, Val(dto.priority), clock)
             t4 == IF IsNone(dto.completed) THEN t3
                   ELSE IF Val(dto.completed) THEN mark_completed(t3, clock)
                   ELSE mark_incomplete(t3, clock)
             u == update(f, fs, t4, clock[1], osname, "none")
         IN  [u EXCEPT !.retTodos = IF u.err = "none" THEN <<t4>> ELSE <<>>]

\* The arguments callers construct
DtoTitles == {None, Some(<<"n", WS>>), Some(<<WS>>)}
DtoDescriptions == {None, Some(<<>>)}
DtoPriorities == {None, Some("high"), Some("urgent")}
DtoCompleted == {None, Some(TRUE)}

\* A constructed store whose document holds the task Second
InitService ==
    /\ fmt \in {"json", "xml"}
    /\ os_name = "posix"
    /\ constructed = TRUE
    /\ dir = TRUE
    /\ file = DocWith(fmt, <<>>, Second)
    /\ tmp = Absent
    /\ backups = [s \in Seconds |-> Absent]
    /\ now = 0
    /\ nops = 0
    /\ last = NoLast
    /\ saved = {}
    /\ nfaults = 0
    /\ procs = [p \in Procs |-> IdleProc]
    /\ ent = NoEnt
    /\ twin = NoTwin

\* service.update_todo(todo_id, UpdateTodoDto(...))
UpdateTodo(todo_id, title, description, priority, completed) ==
    /\ nops < MaxOps
    /\ LET d == UpdateTodoDto(title, description, priority, completed)
       IN  /\ d.ok
           /\ Commit("update_todo", todo_id, <<d.dto>>,
                     update_todo(fmt, Cur, todo_id, d.dto, <<now, 7>>, os_name))
    /\ nops' = nops + 1
    /\ UNCHANGED <<fmt, os_name, constructed, dir, now, saved, procs, ent, twin>>

NextService ==
    \E todo_id \in Ids, title \in DtoTitles, description \in DtoDescriptions,
       priority \in DtoPriorities, completed \in DtoCompleted :
          UpdateTodo(todo_id, title, description, priority, completed)

SpecService == InitService /\ [][NextService]_vars

\* The field of the DTO if it is set, the field the task had otherwise
Expected(given, had) == IF IsNone(given) THEN had ELSE Val(given)

\* C30: after update_todo the stored task has the DTO's value in every
\* field the DTO sets and the value it had in every other field (updated_at,
\* which the Todo methods maintain, aside); for an id that is not stored the
\* call raises TodoNotFoundError, repository.update is not called and the
\* files are as before
C30_UpdateExactly ==
    last.op = "update_todo" =>
        LET dto == last.todo[1]
            before == find_by_id(fmt, last.pre, last.id, "none")
            after == find_by_id(fmt, Cur, last.id, "none")
        IN  /\ (before.err = "none" /\ before.retTodos = <<>>) =>
                  /\ last.err = "TodoNotFoundError"
                  /\ ~last.sw.called
                  /\ Cur = last.pre
            /\ (before.retTodos # <<>> /\ last.err = "none") =>
                  /\ after.err = "none" /\ after.retTodos # <<>>
                  /\ LET b == before.retTodos[1]
                         a == after.retTodos[1]
                     IN  /\ a.id = b.id
                         /\ a.created_at = b.created_at
                         /\ a.title = Expected(dto.title, b.title)
                         /\ a.description = (IF IsNone(dto.description) THEN b.description
                                             ELSE dto.description)
                         /\ a.priority = Expected(dto.priority, b.priority)
                         /\ a.completed = Expected(dto.completed, b.completed)

====
